---- MODULE Spec2Model ----
(***************************************************************************)
(* Model of HistoricalMarker/Data/Texas/TexasHistoricalMarkerCSVtoJSON.py: *)
(* a one-pass converter that reads a CSV extract through csv.DictReader,   *)
(* builds one record per row, and serialises the list twice (indented      *)
(* JSON, then JSON through a gzip text stream).                            *)
(*                                                                         *)
(* Python values are tagged records so that values of different Python    *)
(* types are comparable:                                                   *)
(*    [str |-> <<c1, ..., cn>>]   a str, one element per character        *)
(*    [none |-> TRUE]             None                                     *)
(*    [float |-> [neg, m, k]]     the float (-1)^neg * m / 10^k            *)
(*    [list |-> <<v1, ..., vn>>]  a list                                   *)
(*    [dict |-> <<<<k1, v1>>, ...>>]  a dict, in insertion order           *)
(* A character is a one-element name; "U+00E9" and "U+00F1" name the two   *)
(* non-ASCII characters of the alphabet, "QUOTE" the double quote.         *)
(***************************************************************************)
EXTENDS Integers, Sequences, FiniteSets, TLC

(* Largest number of data rows (lines after the header) of an input file. *)
MaxRows == 2

-----------------------------------------------------------------------------
(* Python values *)

PyStr(s) == [str |-> s]
PyNone == [none |-> TRUE]
PyFloat(f) == [float |-> f]
PyList(xs) == [list |-> xs]
PyDict(kvs) == [dict |-> kvs]

IsStr(v) == DOMAIN v = {"str"}
IsNone(v) == DOMAIN v = {"none"}
IsFloat(v) == DOMAIN v = {"float"}
IsList(v) == DOMAIN v = {"list"}
IsDict(v) == DOMAIN v = {"dict"}

(* bool(v) for the values a DictReader row can hold: None and "" are falsy *)
Truthy(v) == IF IsNone(v) THEN FALSE ELSE IF IsStr(v) THEN v.str # <<>> ELSE TRUE

(* d[k] on an insertion-ordered dict *)
Item(d, k) == LET i == CHOOSE i \in 1..Len(d.dict) : d.dict[i][1] = k IN d.dict[i][2]

-----------------------------------------------------------------------------
(* Characters and strings *)

Digits == <<"0", "1", "2", "3", "4", "5", "6", "7", "8", "9">>
DigitSet == {Digits[i] : i \in 1..Len(Digits)}
DigitVal(c) == (CHOOSE i \in 1..Len(Digits) : Digits[i] = c) - 1
Whitespace == {" "}
NonAscii == {"U+00E9", "U+00F1"}

(* the literal prefix of line 12 *)
IdPrefix == <<"t", "x", "-", "t", "h", "c", "-">>

RECURSIVE LStrip(_)
LStrip(s) == IF s # <<>> /\ s[1] \in Whitespace THEN LStrip(Tail(s)) ELSE s

RECURSIVE RStrip(_)
RStrip(s) ==
    IF s # <<>> /\ s[Len(s)] \in Whitespace THEN RStrip(SubSeq(s, 1, Len(s) - 1)) ELSE s

(* str.strip() *)
Strip(s) == RStrip(LStrip(s))

RECURSIVE Pow10(_)
Pow10(k) == IF k = 0 THEN 1 ELSE 10 * Pow10(k - 1)

RECURSIVE DigitsToNat(_)
DigitsToNat(ds) ==
    IF ds = <<>> THEN 0
    ELSE 10 * DigitsToNat(SubSeq(ds, 1, Len(ds) - 1)) + DigitVal(ds[Len(ds)])

RECURSIVE NatToDigits(_)
NatToDigits(n) ==
    IF n < 10 THEN <<Digits[n + 1]>>
    ELSE Append(NatToDigits(n \div 10), Digits[(n % 10) + 1])

RECURSIVE PadLeft(_, _)
PadLeft(ds, w) == IF Len(ds) >= w THEN ds ELSE PadLeft(<<"0">> \o ds, w)

(* a decimal m / 10^k without trailing zeros in the fraction *)
RECURSIVE Normalize(_, _)
Normalize(m, k) ==
    IF k > 0 /\ m % 10 = 0 THEN Normalize(m \div 10, k - 1) ELSE [m |-> m, k |-> k]

(* float(s) on a str: surrounding whitespace is ignored, then an optional    *)
(* sign, digits and at most one decimal point with at least one digit.     *)
(* Exponents, inf, nan and underscores lie outside the alphabet modelled.  *)
FloatBody(s) == LET t == Strip(s) IN IF t # <<>> /\ t[1] = "-" THEN Tail(t) ELSE t
FloatParses(s) ==
    LET b == FloatBody(s)
        dots == {i \in 1..Len(b) : b[i] = "."}
    IN  /\ Cardinality(dots) <= 1
        /\ Len(b) - Cardinality(dots) >= 1
        /\ \A i \in (1..Len(b)) \ dots : b[i] \in DigitSet
NotDot(c) == c # "."
ParseFloat(s) ==
    LET t == Strip(s)
        b == FloatBody(s)
        dots == {i \in 1..Len(b) : b[i] = "."}
        k0 == IF dots = {} THEN 0 ELSE Len(b) - (CHOOSE i \in dots : TRUE)
        n == Normalize(DigitsToNat(SelectSeq(b, NotDot)), k0)
    IN  [neg |-> t[1] = "-", m |-> n.m, k |-> n.k]

(* float.__repr__ in positional notation: always a decimal point *)
FloatRepr(f) ==
    LET p == Pow10(f.k)
        frac == IF f.k = 0 THEN <<"0">> ELSE PadLeft(NatToDigits(f.m % p), f.k)
    IN  (IF f.neg THEN <<"-">> ELSE <<>>) \o NatToDigits(f.m \div p) \o <<".">> \o frac

-----------------------------------------------------------------------------
(* csv.DictReader: the file is the sequence of rows csv.reader yields, each *)
(* a sequence of cells; the first row names the columns.                   *)

(* DictReader's restkey and restval defaults (both None); the key None is   *)
(* named so that it cannot be a column name.                               *)
RestKey == "restkey:None"
RestVal == PyNone

(* d = dict(zip(fieldnames, row)); the surplus cells go under restkey, and *)
(* the names beyond the last cell get restval. Of a repeated name the last *)
(* occurrence decides.                                                     *)
DictRow(fieldnames, cells) ==
    LET names == {fieldnames[i] : i \in 1..Len(fieldnames)}
        keys == names \cup (IF Len(fieldnames) < Len(cells) THEN {RestKey} ELSE {})
        last(k) == CHOOSE i \in 1..Len(fieldnames) :
                      /\ fieldnames[i] = k
                      /\ \A j \in (i + 1)..Len(fieldnames) : fieldnames[j] # k
    IN  [k \in keys |->
            IF k = RestKey
            THEN PyList([i \in 1..(Len(cells) - Len(fieldnames)) |->
                            PyStr(cells[Len(fieldnames) + i])])
            ELSE IF last(k) > Len(cells) THEN RestVal ELSE PyStr(cells[last(k)])]

(* row.get(key, default) *)
Get(row, key, default) == IF key \in DOMAIN row THEN row[key] ELSE default

-----------------------------------------------------------------------------
(* The record of one row (lines 11-34). An expression that raises evaluates *)
(* to [raise |-> <exception>].                                             *)

Raise(exc) == [raise |-> exc]
IsRaise(v) == DOMAIN v = {"raise"}

(* v.strip(): None has no such attribute *)
StripOf(v) == IF IsStr(v) THEN PyStr(Strip(v.str)) ELSE Raise("AttributeError")

(* FloatOf with per-row recovery: an unparseable value becomes None *)
FloatOfLenient(v) == IF FloatParses(v.str) THEN PyFloat(ParseFloat(v.str)) ELSE PyNone

(* float(v) on a str *)
FloatOf(v) == IF FloatParses(v.str) THEN PyFloat(ParseFloat(v.str)) ELSE Raise("ValueError")

(* IdOf without the strip() *)
IdOfUntrimmed(row) ==
    LET a == Get(row, "AtlasNumber", PyStr(<<>>))
    IN  IF IsStr(a) THEN PyStr(IdPrefix \o a.str) ELSE Raise("AttributeError")

(* f"tx-thc-{row.get('AtlasNumber','').strip()}" *)
IdOf(row) ==
    LET a == StripOf(Get(row, "AtlasNumber", PyStr(<<>>)))
    IN  IF IsRaise(a) THEN a ELSE PyStr(IdPrefix \o a.str)
TitleOf(row) == StripOf(Get(row, "MarkerTitle", PyStr(<<>>)))
DescriptionOf(row) == StripOf(Get(row, "MarkerText", PyStr(<<>>)))
DateInstalledOf(row) == Get(row, "YearMarkerErected", PyStr(<<>>))
CityOf(row) == Get(row, "City", PyStr(<<>>))
CountyOf(row) == Get(row, "County", PyStr(<<>>))
(* SourceIdOf trimmed like the id *)
SourceIdOfTrimmed(row) == StripOf(Get(row, "AtlasNumber", PyStr(<<>>)))
SourceIdOf(row) == Get(row, "AtlasNumber", PyStr(<<>>))

(* Coordinate deciding the pair together: a number only when both are given *)
CoordinateBoth(row, key) ==
    IF Truthy(Get(row, "Latitude", PyNone)) /\ Truthy(Get(row, "Longitude", PyNone))
    THEN FloatOf(row[key]) ELSE PyNone

(* float(row[key]) if row.get(key) else None *)
Coordinate(row, key) ==
    IF Truthy(Get(row, key, PyNone)) THEN FloatOf(row[key]) ELSE PyNone

(* a fixed ASCII literal of the source, kept as one unit *)
S(name) == PyStr(<<name>>)

(* the dict display: the first subexpression that raises, in evaluation    *)
(* order, ends the evaluation                                              *)
MakeRec(row) ==
    LET raised == SelectSeq(<<IdOf(row), TitleOf(row), DescriptionOf(row),
                              Coordinate(row, "Latitude"), Coordinate(row, "Longitude")>>,
                            IsRaise)
    IN  IF raised # <<>> THEN raised[1]
        ELSE PyDict(<<
            <<"id", IdOf(row)>>,
            <<"title", TitleOf(row)>>,
            <<"description", DescriptionOf(row)>>,
            <<"date_installed", DateInstalledOf(row)>>,
            <<"coordinates", PyDict(<<
                <<"latitude", Coordinate(row, "Latitude")>>,
                <<"longitude", Coordinate(row, "Longitude")>> >>)>>,
            <<"address", PyDict(<<
                <<"city", CityOf(row)>>,
                <<"county", CountyOf(row)>>,
                <<"state", S("TX")>> >>)>>,
            <<"images", PyList(<<>>)>>,
            <<"source", PyList(<<PyDict(<<
                <<"name", S("Texas Historical Commission")>>,
                <<"url", S("https://atlas.thc.texas.gov/Data/DataDownload")>>,
                <<"source_id", SourceIdOf(row)>> >>)>>)>>,
            <<"type", S("state marker (TX)")>>,
            <<"tags", PyList(<<>>)>>,
            <<"confidence", PyFloat([neg |-> FALSE, m |-> 9, k |-> 1])>> >>)

(* AppendRecord that drops a record equal to one already held *)
AppendRecordUnique(recs, rec) ==
    IF \E i \in 1..Len(recs) : recs[i] = rec THEN recs ELSE Append(recs, rec)
(* AppendRecord inserting at the front *)
AppendRecordFront(recs, rec) == <<rec>> \o recs

(* records.append(rec) *)
AppendRecord(recs, rec) == Append(recs, rec)

-----------------------------------------------------------------------------
(* json.dump: the text is a sequence of tokens.                             *)
(*    [p |-> c]      punctuation, c one of [ ] { } , :                      *)
(*    [ws |-> n]     n spaces                                              *)
(*    [nl |-> n]     a newline and n spaces of indentation                 *)
(*    [key |-> k]    an object key in quotes (keys are ASCII literals)     *)
(*    [s |-> us]     a string in quotes, us its units: a character, or an  *)
(*                   escape sequence standing for one                      *)
(*    [num |-> cs]   a number, cs its characters                           *)
(*    [lit |-> w]    the literal null                                      *)

P(c) == [p |-> c]
Ws(n) == [ws |-> n]
Nl(n) == [nl |-> n]

(* json.encoder's ESCAPE_DCT and the \uXXXX form of ESCAPE_ASCII *)
EscapeQuote == "\\\""
EscapeUnicode(c) == IF c = "U+00E9" THEN "\\u00e9" ELSE "\\u00f1"

(* EncodeChar replacing what ASCII cannot hold *)
EncodeCharReplace(c, ensure_ascii) ==
    IF c = "QUOTE" THEN EscapeQuote
    ELSE IF ensure_ascii /\ c \in NonAscii THEN "?"
    ELSE c

(* py_encode_basestring (ensure_ascii false) and py_encode_basestring_ascii *)
EncodeChar(c, ensure_ascii) ==
    IF c = "QUOTE" THEN EscapeQuote
    ELSE IF ensure_ascii /\ c \in NonAscii THEN EscapeUnicode(c)
    ELSE c
EncodeString(s, ensure_ascii) ==
    [s |-> [i \in 1..Len(s) |-> EncodeChar(s[i], ensure_ascii)]]

(* the separators json.dump derives from indent: (',', ': ') with the      *)
(* newline and indentation when indent is given, (', ', ': ') otherwise.   *)
(* indent is <<n>> for indent=n and <<>> for indent=None.                  *)
ItemSeparator(indent, level) ==
    IF indent = <<>> THEN <<P(","), Ws(1)>> ELSE <<P(","), Nl(indent[1] * level)>>
KeySeparator == <<P(":"), Ws(1)>>
NewlineIndent(indent, level) == IF indent = <<>> THEN <<>> ELSE <<Nl(indent[1] * level)>>

RECURSIVE Encode(_, _, _, _)
RECURSIVE EncodeItems(_, _, _, _, _)
RECURSIVE EncodePairs(_, _, _, _, _)

(* the items of a list from the i-th on, at nesting level `level` *)
EncodeItems(xs, i, ensure_ascii, indent, level) ==
    IF i > Len(xs) THEN <<>>
    ELSE (IF i > 1 THEN ItemSeparator(indent, level) ELSE <<>>)
         \o Encode(xs[i], ensure_ascii, indent, level)
         \o EncodeItems(xs, i + 1, ensure_ascii, indent, level)

EncodePairs(kvs, i, ensure_ascii, indent, level) ==
    IF i > Len(kvs) THEN <<>>
    ELSE (IF i > 1 THEN ItemSeparator(indent, level) ELSE <<>>)
         \o <<[key |-> kvs[i][1]]>> \o KeySeparator
         \o Encode(kvs[i][2], ensure_ascii, indent, level)
         \o EncodePairs(kvs, i + 1, ensure_ascii, indent, level)

(* json.encoder._make_iterencode *)
Encode(v, ensure_ascii, indent, level) ==
    IF IsNone(v) THEN <<[lit |-> "null"]>>
    ELSE IF IsStr(v) THEN <<EncodeString(v.str, ensure_ascii)>>
    ELSE IF IsFloat(v) THEN <<[num |-> FloatRepr(v.float)]>>
    ELSE IF IsList(v) THEN
        IF v.list = <<>> THEN <<P("["), P("]")>>
        ELSE <<P("[")>> \o NewlineIndent(indent, level + 1)
             \o EncodeItems(v.list, 1, ensure_ascii, indent, level + 1)
             \o NewlineIndent(indent, level) \o <<P("]")>>
    ELSE
        IF v.dict = <<>> THEN <<P("{"), P("}")>>
        ELSE <<P("{")>> \o NewlineIndent(indent, level + 1)
             \o EncodePairs(v.dict, 1, ensure_ascii, indent, level + 1)
             \o NewlineIndent(indent, level) \o <<P("}")>>

(* json.dump(obj, f, ensure_ascii=..., indent=...): the text written to f *)
JsonDump(obj, ensure_ascii, indent) == Encode(obj, ensure_ascii, indent, 0)

-----------------------------------------------------------------------------
(* json.load: what a reader of the output files decodes *)

IsSpace(tok) == DOMAIN tok \in {{"ws"}, {"nl"}}
IsP(tok, c) == DOMAIN tok = {"p"} /\ tok.p = c

RECURSIVE SkipSpace(_, _)
SkipSpace(toks, i) ==
    IF i <= Len(toks) /\ IsSpace(toks[i]) THEN SkipSpace(toks, i + 1) ELSE i

(* json.decoder.scanstring: an escape sequence decodes to its character *)
DecodeUnit(u) ==
    IF u = "\\\"" THEN "QUOTE"
    ELSE IF u = "\\u00e9" THEN "U+00E9"
    ELSE IF u = "\\u00f1" THEN "U+00F1"
    ELSE u
DecodeString(us) == [i \in 1..Len(us) |-> DecodeUnit(us[i])]

RECURSIVE Decode(_, _)
RECURSIVE DecodeItems(_, _, _)
RECURSIVE DecodePairs(_, _, _)

(* Each returns [v |-> the value, n |-> the index after it]. *)
DecodeItems(toks, i, acc) ==
    LET x == Decode(toks, SkipSpace(toks, i))
        j == SkipSpace(toks, x.n)
    IN  IF IsP(toks[j], ",") THEN DecodeItems(toks, j + 1, Append(acc, x.v))
        ELSE [v |-> PyList(Append(acc, x.v)), n |-> j + 1]

DecodePairs(toks, i, acc) ==
    LET k == SkipSpace(toks, i)
        c == SkipSpace(toks, k + 1)
        x == Decode(toks, SkipSpace(toks, c + 1))
        j == SkipSpace(toks, x.n)
        kv == <<toks[k].key, x.v>>
    IN  IF IsP(toks[j], ",") THEN DecodePairs(toks, j + 1, Append(acc, kv))
        ELSE [v |-> PyDict(Append(acc, kv)), n |-> j + 1]

(* json.scanner.py_make_scanner: one value starting at token i *)
Decode(toks, i) ==
    LET tok == toks[i]
    IN  IF DOMAIN tok = {"lit"} THEN [v |-> PyNone, n |-> i + 1]
        ELSE IF DOMAIN tok = {"s"} THEN [v |-> PyStr(DecodeString(tok.s)), n |-> i + 1]
        ELSE IF DOMAIN tok = {"num"} THEN [v |-> PyFloat(ParseFloat(tok.num)), n |-> i + 1]
        ELSE IF IsP(tok, "[") THEN
            LET j == SkipSpace(toks, i + 1)
            IN  IF IsP(toks[j], "]") THEN [v |-> PyList(<<>>), n |-> j + 1]
                ELSE DecodeItems(toks, j, <<>>)
        ELSE
            LET j == SkipSpace(toks, i + 1)
            IN  IF IsP(toks[j], "}") THEN [v |-> PyDict(<<>>), n |-> j + 1]
                ELSE DecodePairs(toks, j, <<>>)

(* json.load: a text without a value raises JSONDecodeError *)
JsonLoad(toks) ==
    IF SkipSpace(toks, 1) > Len(toks) THEN [raise |-> "JSONDecodeError"]
    ELSE Decode(toks, SkipSpace(toks, 1)).v

-----------------------------------------------------------------------------
(* gzip: a member holds the compressed text and the length of the original *)
(* (ISIZE). Compression is modelled by run-length coding: a sequence of     *)
(* <<token, count>> runs.                                                  *)

(* two run sequences joined: the runs that meet are merged when they hold   *)
(* the same token                                                          *)
JoinRuns(a, b) ==
    IF a # <<>> /\ b # <<>> /\ a[Len(a)][1] = b[1][1]
    THEN SubSeq(a, 1, Len(a) - 1) \o <<<<b[1][1], a[Len(a)][2] + b[1][2]>>>> \o Tail(b)
    ELSE a \o b

(* the runs of text[lo..hi] *)
RECURSIVE Compress(_, _, _)
Compress(text, lo, hi) ==
    IF lo > hi THEN <<>>
    ELSE IF lo = hi THEN <<<<text[lo], 1>>>>
    ELSE LET mid == (lo + hi) \div 2
         IN  JoinRuns(Compress(text, lo, mid), Compress(text, mid + 1, hi))

(* the text of runs[lo..hi] *)
RECURSIVE Decompress(_, _, _)
Decompress(runs, lo, hi) ==
    IF lo > hi THEN <<>>
    ELSE IF lo = hi THEN [j \in 1..runs[lo][2] |-> runs[lo][1]]
    ELSE LET mid == (lo + hi) \div 2
         IN  Decompress(runs, lo, mid) \o Decompress(runs, mid + 1, hi)

GzipMember(text) == [deflated |-> Compress(text, 1, Len(text)), isize |-> Len(text)]
Gunzip(member) == Decompress(member.deflated, 1, Len(member.deflated))

-----------------------------------------------------------------------------
(* The inputs: the rows csv.reader yields for the input file. A header cell *)
(* is kept as one unit, its name; a data cell is a sequence of characters.  *)

Header == <<"AtlasNumber", "MarkerTitle", "MarkerText", "YearMarkerErected",
            "Latitude", "Longitude", "City", "County">>
(* a header with columns missing, moved and unknown, and a blank first line *)
Headers == {Header, <<"MarkerTitle", "AtlasNumber", "Notes", "Latitude">>, <<>>}

FullRow(atlas, title, lat, lon) ==
    <<atlas, title, title \o <<"U+00F1">>, <<"1", "9">>, lat, lon, <<" ", "S">>, <<"B", " ">>>>
BaseRow == FullRow(<<" ", "5", " ">>, <<" ", "A", "QUOTE", " ">>, <<"2", ".", "5", "0">>, <<"-", "3">>)
(* padded, whitespace-only and empty text cells; each coordinate given,    *)
(* empty, or no number                                                     *)
FullRows ==
    {BaseRow,
     FullRow(<<" ">>, <<"U+00E9">>, <<>>, <<"-", "3">>),
     FullRow(<<"7">>, <<"A">>, <<"2", ".", "5", "0">>, <<>>),
     FullRow(<<>>, <<>>, <<>>, <<>>),
     FullRow(<<"7">>, <<"A">>, <<"x">>, <<"-", "3">>),
     FullRow(<<"7">>, <<"A">>, <<"2", ".", "5", "0">>, <<" ">>)}
(* a blank line, rows with fewer cells than the header, a row with more *)
ShortRows == {SubSeq(BaseRow, 1, n) : n \in {0, 1, 7}}
LongRows == {Append(BaseRow, <<"z">>)}
Rows == FullRows \cup ShortRows \cup LongRows

(* an empty file, or a header line and up to MaxRows further lines *)
Files ==
    {<<>>} \cup
    {<<h>> \o rs : h \in Headers, rs \in UNION {[1..n -> Rows] : n \in 0..MaxRows}}

(* What a file name holds: nothing, text, or gzip members. *)
Absent == [absent |-> TRUE]
Text(toks) == [text |-> toks]
Gz(members) == [members |-> members]
(* what an earlier, unrelated run or program left under the output names *)
StaleText == <<P("{"), P("}")>>
PriorFiles ==
    {[output |-> Absent, zip |-> Absent],
     [output |-> Text(StaleText), zip |-> Gz(<<GzipMember(StaleText)>>)]}

-----------------------------------------------------------------------------
(* The run *)

VARIABLES
    pc,           \* the statement the run is at, "done" or "failed"
    input,        \* the rows of the file named INPUT
    fieldnames,   \* reader._fieldnames: None until the header line is read
    pos,          \* the number of rows the reader has consumed
    records,      \* the list records
    outputFile,   \* what the name OUTPUT holds
    zipFile,      \* what the name ZIP holds
    stdout,       \* the lines printed
    error,        \* the exception that ended the run, "none" while there is none
    prior         \* outputFile and zipFile as they were when the run started

vars == <<pc, input, fieldnames, pos, records, outputFile, zipFile, stdout, error, prior>>

Init ==
    /\ pc = "start"
    /\ input \in Files
    /\ fieldnames = PyNone
    /\ pos = 0
    /\ records = <<>>
    /\ prior \in PriorFiles
    /\ outputFile = prior.output
    /\ zipFile = prior.zip
    /\ stdout = <<>>
    /\ error = "none"

(* an uncaught exception: the traceback is printed and the process exits.   *)
(* An OSError is kept with the file it names.                              *)
Fail(exc) == pc' = "failed" /\ error' = exc

(* line 8: open(INPUT, newline='', encoding='utf-8'); line 9 builds the reader *)
OpenInput ==
    /\ pc = "start"
    /\ pc' = "reading"
    /\ UNCHANGED <<input, fieldnames, pos, records, outputFile, zipFile, stdout, error, prior>>

(* line 8 when the input path is missing or unreadable *)
OpenInputFails ==
    /\ pc = "start"
    /\ Fail("OSError:INPUT")
    /\ UNCHANGED <<input, fieldnames, pos, records, outputFile, zipFile, stdout, prior>>

(* line 10, first iteration: DictReader reads the first row as fieldnames *)
ReadHeader ==
    /\ pc = "reading"
    /\ IsNone(fieldnames)
    /\ pos < Len(input)
    /\ fieldnames' = PyList(input[pos + 1])
    /\ pos' = pos + 1
    /\ UNCHANGED <<pc, input, records, outputFile, zipFile, stdout, error, prior>>

(* line 10: DictReader passes over a row without cells (a blank line) *)
SkipBlankRow ==
    /\ pc = "reading"
    /\ ~IsNone(fieldnames)
    /\ pos < Len(input)
    /\ input[pos + 1] = <<>>
    /\ pos' = pos + 1
    /\ UNCHANGED <<pc, input, fieldnames, records, outputFile, zipFile, stdout, error, prior>>

(* lines 10-35 for one row: the record is built and appended *)
ConvertRow ==
    /\ pc = "reading"
    /\ ~IsNone(fieldnames)
    /\ pos < Len(input)
    /\ input[pos + 1] # <<>>
    /\ LET rec == MakeRec(DictRow(fieldnames.list, input[pos + 1]))
       IN  /\ ~IsRaise(rec)
           /\ records' = AppendRecord(records, rec)
    /\ pos' = pos + 1
    /\ UNCHANGED <<pc, input, fieldnames, outputFile, zipFile, stdout, error, prior>>

(* lines 10-34 for one row when an expression of the record raises *)
ConvertRowRaises ==
    /\ pc = "reading"
    /\ ~IsNone(fieldnames)
    /\ pos < Len(input)
    /\ input[pos + 1] # <<>>
    /\ LET rec == MakeRec(DictRow(fieldnames.list, input[pos + 1]))
       IN  /\ IsRaise(rec)
           /\ Fail(rec.raise)
    /\ pos' = pos + 1
    /\ UNCHANGED <<input, fieldnames, records, outputFile, zipFile, stdout, prior>>

(* EndOfInput taking a blank line for the end of the file *)
EndOfInputAtBlank ==
    /\ pc = "reading"
    /\ IF pos = Len(input) THEN TRUE ELSE ~IsNone(fieldnames) /\ input[pos + 1] = <<>>
    /\ pc' = "open_output"
    /\ UNCHANGED <<input, fieldnames, pos, records, outputFile, zipFile, stdout, error, prior>>

(* line 10: the reader is exhausted; the with block of line 8 closes f *)
EndOfInput ==
    /\ pc = "reading"
    /\ pos = Len(input)
    /\ pc' = "open_output"
    /\ UNCHANGED <<input, fieldnames, pos, records, outputFile, zipFile, stdout, error, prior>>

(* line 38: open(OUTPUT, "w") creates or truncates the file *)
OpenOutput ==
    /\ pc = "open_output"
    /\ outputFile' = Text(<<>>)
    /\ pc' = "dump_output"
    /\ UNCHANGED <<input, fieldnames, pos, records, zipFile, stdout, error, prior>>

(* line 38 when OUTPUT cannot be opened for writing *)
OpenOutputFails ==
    /\ pc = "open_output"
    /\ Fail("OSError:OUTPUT")
    /\ UNCHANGED <<input, fieldnames, pos, records, outputFile, zipFile, stdout, prior>>

(* DumpOutput whose text never reaches the file (f is not closed) *)
DumpOutputUnclosed ==
    /\ pc = "dump_output"
    /\ pc' = "open_zip"
    /\ UNCHANGED <<input, fieldnames, pos, records, outputFile, zipFile, stdout, error, prior>>

(* line 39, and the close of f at the end of the with block *)
DumpOutput ==
    /\ pc = "dump_output"
    /\ outputFile' = Text(outputFile.text \o JsonDump(PyList(records), FALSE, <<2>>))
    /\ pc' = "open_zip"
    /\ UNCHANGED <<input, fieldnames, pos, records, zipFile, stdout, error, prior>>

(* line 42: gzip.open(ZIP, "wt") creates or truncates the file *)
OpenZip ==
    /\ pc = "open_zip"
    /\ zipFile' = Gz(<<>>)
    /\ pc' = "dump_zip"
    /\ UNCHANGED <<input, fieldnames, pos, records, outputFile, stdout, error, prior>>

(* line 42 when ZIP cannot be opened for writing *)
OpenZipFails ==
    /\ pc = "open_zip"
    /\ Fail("OSError:ZIP")
    /\ UNCHANGED <<input, fieldnames, pos, records, outputFile, zipFile, stdout, prior>>

(* line 43, and the close of the gzip stream at the end of the with block *)
DumpZip ==
    /\ pc = "dump_zip"
    /\ zipFile' = Gz(Append(zipFile.members, GzipMember(JsonDump(PyList(records), TRUE, <<>>))))
    /\ pc' = "print"
    /\ UNCHANGED <<input, fieldnames, pos, records, outputFile, stdout, error, prior>>

(* line 45 *)
PrintSummary ==
    /\ pc = "print"
    /\ stdout' = Append(stdout, [wrote |-> Len(records), to |-> "OUTPUT", and |-> "ZIP"])
    /\ pc' = "done"
    /\ UNCHANGED <<input, fieldnames, pos, records, outputFile, zipFile, error, prior>>

Next ==
    \/ OpenInput
    \/ OpenInputFails
    \/ ReadHeader
    \/ SkipBlankRow
    \/ ConvertRow
    \/ ConvertRowRaises
    \/ EndOfInput
    \/ OpenOutput
    \/ OpenOutputFails
    \/ DumpOutput
    \/ OpenZip
    \/ OpenZipFails
    \/ DumpZip
    \/ PrintSummary

Spec == Init /\ [][Next]_vars

(* The states of the run as the design names them. *)
Phase(p) ==
    IF p = "start" THEN "not started"
    ELSE IF p \in {"reading", "done", "failed"} THEN p
    ELSE "writing"

-----------------------------------------------------------------------------
(* Vocabulary of the properties: the input as a table, the fields of a     *)
(* record.                                                                 *)

NonBlank(cells) == cells # <<>>
Names == IF input = <<>> THEN <<>> ELSE input[1]
(* the data rows: the lines after the header that hold at least one cell *)
DataRows == IF input = <<>> THEN <<>> ELSE SelectSeq(Tail(input), NonBlank)
(* the data rows among the lines read so far *)
DataRowsRead == SelectSeq(SubSeq(input, 2, pos), NonBlank)

HasColumn(col) == \E i \in 1..Len(Names) : Names[i] = col
ColumnIndex(col) == CHOOSE i \in 1..Len(Names) : Names[i] = col
(* the row has a cell under the column *)
Present(cells, col) == HasColumn(col) /\ ColumnIndex(col) <= Len(cells)
RawCell(cells, col) == cells[ColumnIndex(col)]
(* the cell as a value, the empty string when the row has none *)
CellOrEmpty(cells, col) == IF Present(cells, col) THEN RawCell(cells, col) ELSE <<>>

(* t is s without its leading and trailing whitespace *)
IsTrimOf(t, s) ==
    \E i \in 0..Len(s) : \E j \in i..Len(s) :
        /\ t = SubSeq(s, i + 1, j)
        /\ \A k \in 1..i : s[k] \in Whitespace
        /\ \A k \in (j + 1)..Len(s) : s[k] \in Whitespace
        /\ t = <<>> \/ (t[1] \notin Whitespace /\ t[Len(t)] \notin Whitespace)

RecId(r) == Item(r, "id")
RecTitle(r) == Item(r, "title")
RecDescription(r) == Item(r, "description")
RecDate(r) == Item(r, "date_installed")
RecCoordinate(r, key) == Item(Item(r, "coordinates"), key)
RecCity(r) == Item(Item(r, "address"), "city")
RecCounty(r) == Item(Item(r, "address"), "county")
RecSourceId(r) == Item(Item(r, "source").list[1], "source_id")

(* a coordinate cell that is given and is no number *)
BadCoordinate(cells, col) ==
    Present(cells, col) /\ RawCell(cells, col) # <<>> /\ ~FloatParses(RawCell(cells, col))
HasBadCoordinate ==
    \E k \in 1..Len(DataRows) :
        BadCoordinate(DataRows[k], "Latitude") \/ BadCoordinate(DataRows[k], "Longitude")

ConversionErrors == {"AttributeError", "ValueError"}
FilesAsBefore == outputFile = prior.output /\ zipFile = prior.zip
(* what the two output files decode to *)
PlainDecoded == JsonLoad(outputFile.text)
ZipDecoded == JsonLoad(Gunzip(zipFile.members[1]))

-----------------------------------------------------------------------------
(* C1: while no row has failed to convert, the records held are as many as  *)
(* the data rows read (a data row is a line after the header with at least *)
(* one cell; DictReader does not yield blank lines), and once reading is   *)
(* over they are as many as the data rows of the input.                    *)
C1_RecordCount ==
    /\ error \notin ConversionErrors => Len(records) = Len(DataRowsRead)
    /\ Phase(pc) \in {"writing", "done"} => Len(records) = Len(DataRows)
C1_Witness ==
    /\ pc = "done"
    /\ Len(records) = 2
    /\ records[1] = records[2]

(* C2: an input with a coordinate that is given but is no number never      *)
(* leaves the reading phase except by failing, and both output files stay  *)
(* as they were before the run, wherever the bad row stands.               *)
C2_BadCoordinateAborts ==
    HasBadCoordinate =>
        /\ Phase(pc) \in {"not started", "reading", "failed"}
        /\ ~(pc = "reading" /\ pos = Len(input))
        /\ FilesAsBefore
C2_Witness ==
    /\ pc = "failed"
    /\ error = "ValueError"
    /\ pos = 3
    /\ Len(records) = 1
    /\ outputFile = Text(StaleText)

(* C3: no run ends on a field that is absent, and in every record a string  *)
(* field whose cell is absent is the empty string (the id the bare prefix) *)
(* and a coordinate whose cell is absent is null.                          *)
C3_AbsentFieldsDefault ==
    /\ error # "AttributeError"
    /\ \A k \in 1..Len(records) :
        LET cells == DataRows[k]
            r == records[k]
        IN  /\ ~Present(cells, "AtlasNumber") =>
                  RecId(r) = PyStr(IdPrefix) /\ RecSourceId(r) = PyStr(<<>>)
            /\ ~Present(cells, "MarkerTitle") => RecTitle(r) = PyStr(<<>>)
            /\ ~Present(cells, "MarkerText") => RecDescription(r) = PyStr(<<>>)
            /\ ~Present(cells, "YearMarkerErected") => RecDate(r) = PyStr(<<>>)
            /\ ~Present(cells, "City") => RecCity(r) = PyStr(<<>>)
            /\ ~Present(cells, "County") => RecCounty(r) = PyStr(<<>>)
            /\ ~Present(cells, "Latitude") => RecCoordinate(r, "latitude") = PyNone
            /\ ~Present(cells, "Longitude") => RecCoordinate(r, "longitude") = PyNone

(* C4: the id of the i-th record is the prefix "tx-thc-" followed by the    *)
(* AtlasNumber of the i-th data row without its surrounding whitespace.    *)
C4_IdIsPrefixAndTrimmedAtlas ==
    \A k \in 1..Len(records) :
        /\ IsStr(RecId(records[k]))
        /\ Len(RecId(records[k]).str) >= Len(IdPrefix)
        /\ SubSeq(RecId(records[k]).str, 1, Len(IdPrefix)) = IdPrefix
        /\ IsTrimOf(SubSeq(RecId(records[k]).str, Len(IdPrefix) + 1, Len(RecId(records[k]).str)),
                    CellOrEmpty(DataRows[k], "AtlasNumber"))
C4_Witness ==
    /\ Names = Header
    /\ Len(records) = 2
    /\ RawCell(DataRows[1], "AtlasNumber") = <<" ", "5", " ">>
    /\ RecId(records[1]) = PyStr(IdPrefix \o <<"5">>)
    /\ RawCell(DataRows[2], "AtlasNumber") = <<" ">>
    /\ RecId(records[2]) = PyStr(IdPrefix)

(* C5: after a successful run the plain file and the decompressed gzip file *)
(* decode to the same list, which is the list of records held in memory.   *)
C5_OutputsDecodeAlike ==
    pc \in {"print", "done"} =>
        /\ PlainDecoded = ZipDecoded
        /\ PlainDecoded = PyList(records)
C5_Witness ==
    /\ pc = "done"
    /\ Len(records) = 2
    /\ outputFile.text # Gunzip(zipFile.members[1])
    /\ \E i \in 1..Len(outputFile.text) :
          DOMAIN outputFile.text[i] = {"s"}
          /\ \E j \in 1..Len(outputFile.text[i].s) : outputFile.text[i].s[j] \in NonAscii

(* C6: the k-th record is the record of the k-th data row; a step leaves    *)
(* the list alone or adds one record at its end; and both files, once      *)
(* written, hold the records in that order.                                *)
C6_RecordsInRowOrder ==
    /\ Len(records) <= Len(DataRows)
    /\ \A k \in 1..Len(records) : records[k] = MakeRec(DictRow(Names, DataRows[k]))
    /\ pc \in {"print", "done"} =>
          /\ Len(PlainDecoded.list) = Len(records)
          /\ Len(ZipDecoded.list) = Len(records)
          /\ \A k \in 1..Len(records) :
                PlainDecoded.list[k] = records[k] /\ ZipDecoded.list[k] = records[k]
C6_AppendOnly ==
    \/ records' = records
    \/ /\ Len(records') = Len(records) + 1
       /\ SubSeq(records', 1, Len(records)) = records
C6_OrderPreserved == [](C6_RecordsInRowOrder) /\ [][C6_AppendOnly]_vars
C6_Witness ==
    /\ pc = "done"
    /\ Len(records) = 2
    /\ RecSourceId(records[1]) = PyStr(<<"7">>)
    /\ RecSourceId(records[2]) = PyStr(<<" ", "5", " ">>)

(* C7: each coordinate of a record is decided by its own cell: null when    *)
(* the cell is absent or empty, the number parsed from it otherwise; both  *)
(* keys are always there; and a run ends on a parse exactly at a row with  *)
(* a non-empty coordinate cell that is no number.                          *)
CoordinateOfCell(r, key, cells, col) ==
    IF Present(cells, col) /\ RawCell(cells, col) # <<>>
    THEN /\ FloatParses(RawCell(cells, col))
         /\ RecCoordinate(r, key) = PyFloat(ParseFloat(RawCell(cells, col)))
    ELSE RecCoordinate(r, key) = PyNone
C7_CoordinatesIndependent ==
    /\ \A k \in 1..Len(records) :
        /\ [i \in 1..2 |-> Item(records[k], "coordinates").dict[i][1]] = <<"latitude", "longitude">>
        /\ CoordinateOfCell(records[k], "latitude", DataRows[k], "Latitude")
        /\ CoordinateOfCell(records[k], "longitude", DataRows[k], "Longitude")
    /\ error = "ValueError" =>
          BadCoordinate(input[pos], "Latitude") \/ BadCoordinate(input[pos], "Longitude")
C7_Witness ==
    /\ Len(records) = 2
    /\ RecCoordinate(records[1], "latitude") = PyNone
    /\ IsFloat(RecCoordinate(records[1], "longitude"))
    /\ IsFloat(RecCoordinate(records[2], "latitude"))
    /\ RecCoordinate(records[2], "longitude") = PyNone

(* C8: a step changes the phase only forward (not started, reading,         *)
(* writing, done) or to failed, and nothing follows done or failed; an     *)
(* output file changes only in the writing phase with every row read; and  *)
(* a step that fails before the writing phase leaves both files as they    *)
(* were before the run.                                                    *)
PhaseSteps ==
    {<<"not started", "reading">>, <<"reading", "writing">>, <<"writing", "done">>,
     <<"not started", "failed">>, <<"reading", "failed">>, <<"writing", "failed">>}
C8_Step ==
    /\ Phase(pc) \notin {"done", "failed"}
    /\ Phase(pc') # Phase(pc) => <<Phase(pc), Phase(pc')>> \in PhaseSteps
    /\ (outputFile' # outputFile \/ zipFile' # zipFile) =>
          Phase(pc) = "writing" /\ pos = Len(input)
    /\ (Phase(pc) \in {"not started", "reading"} /\ Phase(pc') = "failed") =>
          outputFile' = prior.output /\ zipFile' = prior.zip
C8_PhasesForward == [][C8_Step]_vars
C8_Witness ==
    /\ pc = "failed"
    /\ error = "ValueError"
    /\ Len(input) = 3
    /\ pos = 2
    /\ records = <<>>
    /\ outputFile = Text(StaleText)
    /\ zipFile = Gz(<<GzipMember(StaleText)>>)

(* C9: in every record the date, city, county and source_id are the cells   *)
(* exactly as read, and the title, the description and the id's suffix are *)
(* the cells without surrounding whitespace; so source_id keeps whitespace *)
(* that the id drops.                                                      *)
PassedThrough(v, cells, col) == Present(cells, col) => v = PyStr(RawCell(cells, col))
Trimmed(v, cells, col) == Present(cells, col) => IsTrimOf(v.str, RawCell(cells, col))
C9_TrimOnlyThree ==
    \A k \in 1..Len(records) :
        LET cells == DataRows[k]
            r == records[k]
        IN  /\ PassedThrough(RecDate(r), cells, "YearMarkerErected")
            /\ PassedThrough(RecCity(r), cells, "City")
            /\ PassedThrough(RecCounty(r), cells, "County")
            /\ PassedThrough(RecSourceId(r), cells, "AtlasNumber")
            /\ Trimmed(RecTitle(r), cells, "MarkerTitle")
            /\ Trimmed(RecDescription(r), cells, "MarkerText")
            /\ Trimmed(PyStr(SubSeq(RecId(r).str, Len(IdPrefix) + 1, Len(RecId(r).str))),
                       cells, "AtlasNumber")
C9_Witness ==
    /\ Len(records) = 1
    /\ RecSourceId(records[1]) = PyStr(<<" ", "5", " ">>)
    /\ RecId(records[1]) = PyStr(IdPrefix \o <<"5">>)
    /\ RecId(records[1]) # PyStr(IdPrefix \o RecSourceId(records[1]).str)
    /\ RecCity(records[1]) = PyStr(<<" ", "S">>)
    /\ RecCounty(records[1]) = PyStr(<<"B", " ">>)
    /\ RecTitle(records[1]) = PyStr(<<"A", "QUOTE">>)

(* C10: the compressed file is opened only after the plain file holds all   *)
(* the records; a run that fails to open it ends with the plain file       *)
(* complete and the compressed file as it was before the run; and the      *)
(* summary is printed only when both files hold the records.               *)
C10_OutputsNotAtomic ==
    /\ pc \in {"open_zip", "dump_zip", "print", "done"} \/ error = "OSError:ZIP" =>
          /\ PlainDecoded = PyList(records)
          /\ Len(records) = Len(DataRows)
    /\ error = "OSError:ZIP" => pc = "failed" /\ zipFile = prior.zip
    /\ pc = "failed" => stdout = <<>>
    /\ stdout # <<>> =>
          /\ pc = "done"
          /\ stdout = <<[wrote |-> Len(records), to |-> "OUTPUT", and |-> "ZIP"]>>
          /\ PlainDecoded = PyList(records)
          /\ ZipDecoded = PyList(records)
C10_Witness ==
    /\ pc = "failed"
    /\ error = "OSError:ZIP"
    /\ Len(records) = 2
    /\ PlainDecoded = PyList(records)
    /\ zipFile = Gz(<<GzipMember(StaleText)>>)
    /\ JsonLoad(Gunzip(zipFile.members[1])) # PlainDecoded

====
